---- MODULE Spec2Model ----
(***************************************************************************)
(* A model of ember-i18n-export (src/ember-i18n-export.js): the export of  *)
(* per-locale translation dictionaries to a consolidated csv file, the     *)
(* reconstruction of the previous export from that file, the diff of the   *)
(* two snapshots and the journal and meta data files derived from them.    *)
(*                                                                         *)
(* JavaScript values are modelled as follows.  A plain object is the       *)
(* sequence of its own properties in insertion order: a locale dictionary  *)
(* is a sequence of [key, value] records, a translation map a sequence of  *)
(* [locale, dict] records, a csv row object a sequence of [col, val]       *)
(* records.  Strings are TLA+ strings; undefined and null are the two      *)
(* strings UNDEFINED and NULL, which are no translation value.             *)
(***************************************************************************)
EXTENDS Integers, Sequences, FiniteSets, TLC

----------------------------------------------------------------------------
(* Bounds of the model *)

\* The largest number of (locale, key, value) entries of the old and the
\* current translation map together, where the diff is checked on pairs of maps.
MaxEntries == 3

\* The number of successive runs of the program in one behaviour.
MaxRuns == 2

\* The locale directories that may exist, in directory listing order.
LocaleOrder == <<"en", "fr">>

\* The translation keys and the translation values that may occur.
KeyNames == {"a", "b"}
ValueNames == {"", "hi", "good day"}

----------------------------------------------------------------------------
(* Sequences *)

\* The elements of a sequence, and whether none occurs twice.
Range(seq) == {seq[i] : i \in DOMAIN seq}
NoDuplicates(seq) == \A i, j \in DOMAIN seq : i # j => seq[i] # seq[j]

----------------------------------------------------------------------------
(* JavaScript values *)

UNDEFINED == "<undefined>"
NULL == "<null>"

\* JavaScript truthiness of a string, undefined or null.
Truthy(v) == v \notin {UNDEFINED, NULL, ""}

\* String.prototype.toUpperCase on the strings of the model.
ToUpperCase(s) ==
    CASE s = "en" -> "EN"
      [] s = "fr" -> "FR"
      [] s \in {"english", "English"} -> "ENGLISH"
      [] s = "system_key" -> "SYSTEM_KEY"
      [] s = "key" -> "KEY"
      [] OTHER -> s

\* String.prototype.toLowerCase on the strings of the model.
ToLowerCase(s) ==
    CASE s = "EN" -> "en"
      [] s = "FR" -> "fr"
      [] s \in {"ENGLISH", "English"} -> "english"
      [] s = "SYSTEM_KEY" -> "system_key"
      [] s = "KEY" -> "key"
      [] OTHER -> s

\* obj[name] of an object given as a sequence of [key, value] records.
Get(dict, k) ==
    IF \E i \in DOMAIN dict : dict[i].key = k
    THEN dict[CHOOSE i \in DOMAIN dict : dict[i].key = k].value
    ELSE UNDEFINED

\* Whether translationMap[locale] is an object (and not undefined).
HasLocale(map, l) == \E i \in DOMAIN map : map[i].locale = l

\* translationMap[locale], for a locale the map has.
LocaleDict(map, l) == map[CHOOSE i \in DOMAIN map : map[i].locale = l].dict

\* translationMap[locale][key]; the caller has checked HasLocale.
Translation(map, l, k) == Get(LocaleDict(map, l), k)

----------------------------------------------------------------------------
(* Dependencies: array-contains, array-difference, Array.prototype.includes *)

\* arrayContains(array, value): the values of the array are made the keys of
\* a hash and the hash is asked hash.hasOwnProperty(value).  With the value
\* "hasOwnProperty" in the array the hash's own property of that name hides the
\* method, and the call ends in a TypeError.
arrayContainsThrows(array) == \E i \in DOMAIN array : array[i] = "hasOwnProperty"

\* What arrayContains returns, where it returns.
arrayContains(array, value) == \E i \in DOMAIN array : array[i] = value

\* Array.prototype.includes
Includes(array, value) == \E i \in DOMAIN array : array[i] = value

\* arrayDiff(a, b): the elements of a that b lacks, then those of b that a lacks.
arrayDiff(a, b) ==
    SelectSeq(a, LAMBDA x : ~Includes(b, x)) \o SelectSeq(b, LAMBDA x : ~Includes(a, x))

----------------------------------------------------------------------------
(* The canonical key set and the diff of two translation maps *)

\* The inner loop of getTranslationKeys: the keys of one locale's dictionary.
\* acc is [threw, keys]: the loop ends where arrayContains throws.
RECURSIVE pushTranslationKeys(_, _)
pushTranslationKeys(acc, dict) ==
    IF acc.threw \/ dict = <<>> THEN acc
    ELSE pushTranslationKeys(
             IF arrayContainsThrows(acc.keys)
             THEN [acc EXCEPT !.threw = TRUE]
             ELSE IF ~arrayContains(acc.keys, Head(dict).key)
                  THEN [acc EXCEPT !.keys = Append(@, Head(dict).key)]
                  ELSE acc,
             Tail(dict))

\* The outer loop of getTranslationKeys: the locales of the map.
RECURSIVE collectTranslationKeys(_, _)
collectTranslationKeys(acc, map) ==
    IF acc.threw \/ map = <<>> THEN acc
    ELSE collectTranslationKeys(pushTranslationKeys(acc, Head(map).dict), Tail(map))

\* [threw |-> the call ended in a TypeError, keys |-> the array returned].
getTranslationKeysResult(translationMap) ==
    collectTranslationKeys([threw |-> FALSE, keys |-> <<>>], translationMap)

\* Whether getTranslationKeys throws, and the array it returns if it does not.
getTranslationKeysThrows(translationMap) == getTranslationKeysResult(translationMap).threw
getTranslationKeys(translationMap) == getTranslationKeysResult(translationMap).keys

\* Mutant of getInsertedTranslationKeys: the difference is returned unfiltered.
getInsertedTranslationKeysUnfiltered(oldTranslationMap, newTranslationMap) ==
    arrayDiff(getTranslationKeys(oldTranslationMap), getTranslationKeys(newTranslationMap))

getInsertedTranslationKeys(oldTranslationMap, newTranslationMap) ==
    LET oldTranslationKeys == getTranslationKeys(oldTranslationMap)
        newTranslationKeys == getTranslationKeys(newTranslationMap)
        diffTranslationKeys == arrayDiff(oldTranslationKeys, newTranslationKeys)
    IN  SelectSeq(diffTranslationKeys,
                  LAMBDA translationKey :
                      /\ ~Includes(oldTranslationKeys, translationKey)
                      /\ Includes(newTranslationKeys, translationKey))

\* Mutant of getDeletedTranslationKeys: the difference is returned unfiltered.
getDeletedTranslationKeysUnfiltered(oldTranslationMap, newTranslationMap) ==
    arrayDiff(getTranslationKeys(oldTranslationMap), getTranslationKeys(newTranslationMap))

getDeletedTranslationKeys(oldTranslationMap, newTranslationMap) ==
    LET oldTranslationKeys == getTranslationKeys(oldTranslationMap)
        newTranslationKeys == getTranslationKeys(newTranslationMap)
        diffTranslationKeys == arrayDiff(oldTranslationKeys, newTranslationKeys)
    IN  SelectSeq(diffTranslationKeys,
                  LAMBDA translationKey :
                      /\ Includes(oldTranslationKeys, translationKey)
                      /\ ~Includes(newTranslationKeys, translationKey))

\* Mutant of isUpdatedTranslation: the deleted keys are not left out.
isUpdatedTranslationWithDeleted(oldValue, newTranslationMap, localKey, translationKey, deletedTranslationKeys) ==
    /\ Truthy(oldValue)
    /\ oldValue # Translation(newTranslationMap, localKey, translationKey)

\* Mutant of isUpdatedTranslation: an old value that is empty counts as well.
isUpdatedTranslationFromEmpty(oldValue, newTranslationMap, localKey, translationKey, deletedTranslationKeys) ==
    /\ HasLocale(newTranslationMap, localKey)
    /\ oldValue # Translation(newTranslationMap, localKey, translationKey)
    /\ ~arrayContains(deletedTranslationKeys, translationKey)

\* The test of getUpdatedTranslationKeys on one (locale, key) of the old map,
\* once newTranslationMap[localKey] is known to be an object.
isUpdatedTranslation(oldValue, newTranslationMap, localKey, translationKey, deletedTranslationKeys) ==
    /\ Truthy(oldValue)
    /\ oldValue # Translation(newTranslationMap, localKey, translationKey)
    /\ ~arrayContains(deletedTranslationKeys, translationKey)

\* The inner loop of getUpdatedTranslationKeys.  acc is [threw, keys]: reading
\* newTranslationMap[localKey][translationKey] throws a TypeError when the new
\* map has no such locale, which the && reaches only for a truthy old value;
\* arrayContains, reached for a truthy old value that is not the new value,
\* throws as described with it.
RECURSIVE updatedInLocale(_, _, _, _, _)
updatedInLocale(acc, dict, localKey, newTranslationMap, deletedTranslationKeys) ==
    IF acc.threw \/ dict = <<>> THEN acc
    ELSE LET translationKey == Head(dict).key
             oldValue == Head(dict).value
             next ==
                 IF /\ Truthy(oldValue)
                    /\ \/ ~HasLocale(newTranslationMap, localKey)
                       \/ /\ oldValue # Translation(newTranslationMap, localKey,
                                                     translationKey)
                          /\ arrayContainsThrows(deletedTranslationKeys)
                 THEN [threw |-> TRUE, keys |-> <<>>]
                 ELSE IF isUpdatedTranslation(oldValue, newTranslationMap, localKey,
                                              translationKey, deletedTranslationKeys)
                      THEN [acc EXCEPT !.keys = Append(@, translationKey)]
                      ELSE acc
         IN  updatedInLocale(next, Tail(dict), localKey, newTranslationMap,
                             deletedTranslationKeys)

\* The outer loop of getUpdatedTranslationKeys.
RECURSIVE updatedInMap(_, _, _, _)
updatedInMap(acc, map, newTranslationMap, deletedTranslationKeys) ==
    IF acc.threw \/ map = <<>> THEN acc
    ELSE updatedInMap(updatedInLocale(acc, Head(map).dict, Head(map).locale,
                                      newTranslationMap, deletedTranslationKeys),
                      Tail(map), newTranslationMap, deletedTranslationKeys)

\* [threw |-> the call ended in a TypeError, keys |-> the array returned].
getUpdatedTranslationKeys(oldTranslationMap, newTranslationMap) ==
    updatedInMap([threw |-> FALSE, keys |-> <<>>], oldTranslationMap, newTranslationMap,
                 getDeletedTranslationKeys(oldTranslationMap, newTranslationMap))

isJournalGenerated(insertedTranslationKeys, updatedTranslationKeys, deletedTranslationKeys, showDeletedInJournal) ==
    \/ Len(insertedTranslationKeys) > 0
    \/ Len(updatedTranslationKeys) > 0
    \/ (showDeletedInJournal /\ Len(deletedTranslationKeys) > 0)

----------------------------------------------------------------------------
(* Column names *)

\* getLocaleColumnName and getColumnNameFromLocale, which have the same body.
getLocaleColumnName(locale, localeColumnNames) ==
    LET columnName == Get(localeColumnNames, locale)
    IN  ToUpperCase(IF ~Truthy(columnName) THEN locale ELSE columnName)

getColumnNameFromLocale(locale, localeColumnNames) ==
    LET columnName == Get(localeColumnNames, locale)
    IN  ToUpperCase(IF ~Truthy(columnName) THEN locale ELSE columnName)

\* getLocaleFromColumnName: the first locale whose configured name is the
\* column name as it stands, else the column name in lower case.
getLocaleFromColumnName(columnName, localeColumnNames) ==
    IF \E i \in DOMAIN localeColumnNames : localeColumnNames[i].value = columnName
    THEN LET first == CHOOSE i \in DOMAIN localeColumnNames :
                          /\ localeColumnNames[i].value = columnName
                          /\ \A j \in 1..(i - 1) : localeColumnNames[j].value # columnName
         IN  localeColumnNames[first].key
    ELSE ToLowerCase(columnName)

----------------------------------------------------------------------------
(* csv files: csv-write-stream and csv-parser *)

\* A file that does not exist, and the file a writer has just been opened on.
NoFile == [exists |-> FALSE, headers |-> <<>>, rows |-> <<>>]
NewFile == [exists |-> TRUE, headers |-> <<>>, rows |-> <<>>]

\* row[col] = val on a row object: a property keeps its place when set again.
SetProp(row, col, val) ==
    IF \E i \in DOMAIN row : row[i].key = col
    THEN [i \in DOMAIN row |-> IF row[i].key = col THEN [key |-> col, value |-> val]
                                                    ELSE row[i]]
    ELSE Append(row, [key |-> col, value |-> val])

\* The text csv-write-stream writes for a value: nothing for null and undefined.
Cell(v) == IF v \in {UNDEFINED, NULL} THEN "" ELSE v

\* writer.write(row): the first row written gives the file its headers; a row
\* is written as its values under the headers, in the headers' order.
WriteRow(file, row) ==
    LET headers == IF file.headers = <<>>
                   THEN [i \in DOMAIN row |-> row[i].key]
                   ELSE file.headers
    IN  [file EXCEPT !.headers = headers,
                     !.rows = Append(@, [i \in DOMAIN headers |-> Cell(Get(row, headers[i]))])]

\* The object csv-parser hands to the data handler for one line of a file.
ParsedRow(headers, line) ==
    [i \in DOMAIN headers |-> [key |-> headers[i], value |-> line[i]]]

----------------------------------------------------------------------------
(* The translation file *)

\* The loop of writeTranslationRow and writeJournalRow over the locales of map.
RECURSIVE setLocaleColumns(_, _, _, _)
setLocaleColumns(row, locales, translationKey, localeColumnNames) ==
    IF locales = <<>> THEN row
    ELSE setLocaleColumns(
             SetProp(row, getLocaleColumnName(Head(locales).locale, localeColumnNames),
                     Get(Head(locales).dict, translationKey)),
             Tail(locales), translationKey, localeColumnNames)

\* The row object writeTranslationRow writes.
translationRow(translationKey, translationMap, translationKeyColumnName, localeColumnNames) ==
    setLocaleColumns(SetProp(<<>>, translationKeyColumnName, translationKey),
                     translationMap, translationKey, localeColumnNames)

RECURSIVE writeTranslationRows(_, _, _, _, _)
writeTranslationRows(file, translationKeys, translationMap, translationKeyColumnName, localeColumnNames) ==
    IF translationKeys = <<>> THEN file
    ELSE writeTranslationRows(
             WriteRow(file, translationRow(Head(translationKeys), translationMap,
                                           translationKeyColumnName, localeColumnNames)),
             Tail(translationKeys), translationMap, translationKeyColumnName,
             localeColumnNames)

\* Mutant of generateTranslationFile: the last blank row is not written.
generateTranslationFileUnclosed(translationMap, translationKeys, translationKeyColumnName, localeColumnNames) ==
    LET blank == translationRow(NULL, translationMap, translationKeyColumnName,
                                localeColumnNames)
        first == WriteRow(NewFile, blank)
    IN  writeTranslationRows(first, translationKeys, translationMap,
                             translationKeyColumnName, localeColumnNames)

\* generateTranslationFile: the file at the output path is removed, then written
\* as a blank row, one row a translation key and a blank row.
generateTranslationFile(translationMap, translationKeys, translationKeyColumnName, localeColumnNames) ==
    LET blank == translationRow(NULL, translationMap, translationKeyColumnName,
                                localeColumnNames)
        first == WriteRow(NewFile, blank)
        body == writeTranslationRows(first, translationKeys, translationMap,
                                     translationKeyColumnName, localeColumnNames)
    IN  WriteRow(body, blank)

----------------------------------------------------------------------------
(* The journal file *)

UpdateTypeUPDATE == "UPDATE"
UpdateTypeINSERT == "NEW"
UpdateTypeDELETE == "DELETE"

\* The loop of writeJournalRow over the locales of the old translation map.
RECURSIVE setOldLocaleColumns(_, _, _, _)
setOldLocaleColumns(row, locales, translationKey, localeColumnNames) ==
    IF locales = <<>> THEN row
    ELSE setOldLocaleColumns(
             SetProp(row,
                     getLocaleColumnName(Head(locales).locale, localeColumnNames) \o "_OLD",
                     Get(Head(locales).dict, translationKey)),
             Tail(locales), translationKey, localeColumnNames)

\* Mutant of journalRow: the old values are written whatever the option says.
journalRowOldAlways(translationKey, translationMap, oldTranslationMap, translationKeyColumnName, localeColumnNames, showOldValueInJournal, updateType) ==
    LET current == setLocaleColumns(SetProp(<<>>, translationKeyColumnName, translationKey),
                                    translationMap, translationKey, localeColumnNames)
        withOld == setOldLocaleColumns(current, oldTranslationMap, translationKey,
                                       localeColumnNames)
    IN  SetProp(withOld, "UPDATE_TYPE", updateType)

\* The row object writeJournalRow writes.
journalRow(translationKey, translationMap, oldTranslationMap, translationKeyColumnName, localeColumnNames, showOldValueInJournal, updateType) ==
    LET current == setLocaleColumns(SetProp(<<>>, translationKeyColumnName, translationKey),
                                    translationMap, translationKey, localeColumnNames)
        withOld == IF showOldValueInJournal
                   THEN setOldLocaleColumns(current, oldTranslationMap, translationKey,
                                            localeColumnNames)
                   ELSE current
    IN  SetProp(withOld, "UPDATE_TYPE", updateType)

RECURSIVE writeJournalRows(_, _, _, _, _, _, _, _)
writeJournalRows(file, translationKeys, translationMap, oldTranslationMap, translationKeyColumnName, localeColumnNames, showOldValueInJournal, updateType) ==
    IF translationKeys = <<>> THEN file
    ELSE writeJournalRows(
             WriteRow(file, journalRow(Head(translationKeys), translationMap,
                                       oldTranslationMap, translationKeyColumnName,
                                       localeColumnNames, showOldValueInJournal,
                                       updateType)),
             Tail(translationKeys), translationMap, oldTranslationMap,
             translationKeyColumnName, localeColumnNames, showOldValueInJournal,
             updateType)

\* Mutant of generateJournalFile: the updated keys' rows are written first.
generateJournalFileUpdatedFirst(translationMap, oldTranslationMap, insertedTranslationKeys, updatedTranslationKeys, deletedTranslationKeys, translationKeyColumnName, localeColumnNames, showDeletedInJournal, showOldValueInJournal) ==
    LET blank == journalRow(NULL, translationMap, oldTranslationMap,
                            translationKeyColumnName, localeColumnNames,
                            showOldValueInJournal, UNDEFINED)
        rows(file, keys, updateType) ==
            writeJournalRows(file, keys, translationMap, oldTranslationMap,
                             translationKeyColumnName, localeColumnNames,
                             showOldValueInJournal, updateType)
        first == WriteRow(NewFile, blank)
        updated == rows(first, updatedTranslationKeys, UpdateTypeUPDATE)
        inserted == rows(updated, insertedTranslationKeys, UpdateTypeINSERT)
        deleted == IF showDeletedInJournal
                   THEN rows(inserted, deletedTranslationKeys, UpdateTypeDELETE)
                   ELSE inserted
    IN  WriteRow(deleted, blank)

\* generateJournalFile: a blank row, the inserted, the updated and (when they
\* are shown) the deleted keys' rows, and a blank row.
generateJournalFile(translationMap, oldTranslationMap, insertedTranslationKeys, updatedTranslationKeys, deletedTranslationKeys, translationKeyColumnName, localeColumnNames, showDeletedInJournal, showOldValueInJournal) ==
    LET blank == journalRow(NULL, translationMap, oldTranslationMap,
                            translationKeyColumnName, localeColumnNames,
                            showOldValueInJournal, UNDEFINED)
        rows(file, keys, updateType) ==
            writeJournalRows(file, keys, translationMap, oldTranslationMap,
                             translationKeyColumnName, localeColumnNames,
                             showOldValueInJournal, updateType)
        first == WriteRow(NewFile, blank)
        inserted == rows(first, insertedTranslationKeys, UpdateTypeINSERT)
        updated == rows(inserted, updatedTranslationKeys, UpdateTypeUPDATE)
        deleted == IF showDeletedInJournal
                   THEN rows(updated, deletedTranslationKeys, UpdateTypeDELETE)
                   ELSE updated
    IN  WriteRow(deleted, blank)

----------------------------------------------------------------------------
(* The meta data file *)

\* wordCount of the translation values of the model.
wordCount(text) ==
    CASE text = "" -> 0
      [] text = "hi" -> 1
      [] text = "good day" -> 2

RECURSIVE localeWordCount(_)
localeWordCount(dict) ==
    IF dict = <<>> THEN 0
    ELSE wordCount(Head(dict).value) + localeWordCount(Tail(dict))

\* The row object writeMetaDataRow writes: keyCount is set to 0 and left at 0.
metaDataRow(localeKey, translationMap) ==
    LET keyCount == 0
    IN  <<[key |-> "LOCALE", value |-> localeKey],
          [key |-> "NUMBER_OF_WORDS",
           value |-> ToString(localeWordCount(LocaleDict(translationMap, localeKey)))],
          [key |-> "NUMBER_OF_KEYS", value |-> ToString(keyCount)]>>

RECURSIVE writeMetaDataRows(_, _, _)
writeMetaDataRows(file, locales, translationMap) ==
    IF locales = <<>> THEN file
    ELSE writeMetaDataRows(WriteRow(file, metaDataRow(Head(locales).locale, translationMap)),
                           Tail(locales), translationMap)

\* Mutant of generateTranslationMetaFile: the locales' rows are not written.
generateTranslationMetaFileNoLocales(translationMap) ==
    WriteRow(NewFile, <<[key |-> "LOCALE", value |-> ""],
                        [key |-> "NUMBER_OF_KEYS", value |-> ""],
                        [key |-> "NUMBER_OF_WORDS", value |-> ""]>>)

\* generateTranslationMetaFile: a row of empty cells, then a row a locale.
generateTranslationMetaFile(translationMap) ==
    LET first == WriteRow(NewFile, <<[key |-> "LOCALE", value |-> ""],
                                     [key |-> "NUMBER_OF_KEYS", value |-> ""],
                                     [key |-> "NUMBER_OF_WORDS", value |-> ""]>>)
    IN  writeMetaDataRows(first, translationMap, translationMap)

----------------------------------------------------------------------------
(* The translation sources: getLocales, getTranslations, getTranslationMap *)

\* The data of a translation file, told by what getTranslations asks of them:
\* whether they have a "{", whether they have a "}", whether the text from the
\* first "{" to the last "}" is JSON, and the object it then is.  An object is
\* the sequence of its properties; a property holds a string or, with isObject,
\* a nested object of string properties.  exists is FALSE for the translation
\* file of a locale directory that has none.
NoTranslationFile ==
    [exists |-> FALSE, open |-> FALSE, close |-> FALSE, json |-> FALSE, object |-> <<>>]

\* The JSON object with the string properties of a dictionary, and its file.
JsonOf(dict) ==
    [i \in DOMAIN dict |->
        [key |-> dict[i].key, isObject |-> FALSE, value |-> dict[i].value, entries |-> <<>>]]
TranslationFile(object) ==
    [exists |-> TRUE, open |-> TRUE, close |-> TRUE, json |-> TRUE, object |-> object]

\* The entries of the input directory that are directories.
getLocales(inputDir) == SelectSeq(inputDir, LAMBDA file : file.isDirectory)

\* Mutant of getTranslations: data without an object are read as the empty object.
getTranslationsLenient(translationsData) ==
    [threw |-> FALSE,
     translations |-> IF translationsData.open /\ translationsData.close /\ translationsData.json
                      THEN translationsData.object
                      ELSE <<>>]

\* getTranslations: an Error without a "{" or a "}", the SyntaxError of
\* JSON.parse for a text that is not JSON, else the object.
getTranslations(translationsData) ==
    IF ~translationsData.open \/ ~translationsData.close
    THEN [threw |-> TRUE, translations |-> <<>>]
    ELSE IF ~translationsData.json
         THEN [threw |-> TRUE, translations |-> <<>>]
         ELSE [threw |-> FALSE, translations |-> translationsData.object]

\* flatten: a nested object's properties under the dotted keys.
RECURSIVE flatten(_)
flatten(object) ==
    IF object = <<>> THEN <<>>
    ELSE LET property == Head(object)
         IN  (IF property.isObject
              THEN [j \in DOMAIN property.entries |->
                       [key |-> property.key \o "." \o property.entries[j].key,
                        value |-> property.entries[j].value]]
              ELSE <<[key |-> property.key, value |-> property.value]>>)
             \o flatten(Tail(object))

getFlattenTranslations(translationData) ==
    LET translations == getTranslations(translationData)
    IN  [threw |-> translations.threw,
         translations |-> flatten(translations.translations)]

\* The loop of getTranslationMap over the locales.  acc is [threw, map].
RECURSIVE readLocales(_, _)
readLocales(acc, locales) ==
    IF acc.threw \/ locales = <<>> THEN acc
    ELSE LET locale == Head(locales)
             flat == getFlattenTranslations(locale.file)
         IN  readLocales(
                 IF ~locale.file.exists
                 THEN [acc EXCEPT !.map = Append(@, [locale |-> locale.name, dict |-> <<>>])]
                 ELSE IF flat.threw
                      THEN [threw |-> TRUE, map |-> <<>>]
                      ELSE [acc EXCEPT !.map = Append(@, [locale |-> locale.name,
                                                          dict |-> flat.translations])],
                 Tail(locales))

\* [threw |-> the call ended in an error, map |-> the map returned].
getTranslationMap(inputDir) ==
    readLocales([threw |-> FALSE, map |-> <<>>], getLocales(inputDir))

----------------------------------------------------------------------------
(* The inputs of a run *)

\* The dictionaries of n entries: n distinct keys in some order, each with a value.
DictsOfSize(n) ==
    {d \in [1..n -> [key : KeyNames, value : ValueNames]] :
        \A i, j \in 1..n : i # j => d[i].key # d[j].key}

DictsUpTo(n) == UNION {DictsOfSize(m) : m \in 0..n}

\* The translation maps over the locales LocaleOrder[i], LocaleOrder[i+1], ...,
\* each locale present or not, of at most budget entries in all.
RECURSIVE MapsFrom(_, _)
MapsFrom(i, budget) ==
    IF i > Len(LocaleOrder) THEN {<<>>}
    ELSE MapsFrom(i + 1, budget) \cup
         UNION {{<<[locale |-> LocaleOrder[i], dict |-> d]>> \o rest :
                     rest \in MapsFrom(i + 1, budget - Len(d))} :
                d \in DictsUpTo(budget)}

\* The number of entries of a translation map.
RECURSIVE NumEntries(_)
NumEntries(map) == IF map = <<>> THEN 0 ELSE Len(Head(map).dict) + NumEntries(Tail(map))

\* What the locale directories may hold when the program is run: each locale
\* directory there or not, its translation file with no key, with the key a
\* and any value, or with the key b.
SourceDicts ==
    {<<>>} \cup {<<[key |-> "a", value |-> v]>> : v \in ValueNames}
           \cup {<<[key |-> "b", value |-> "hi"]>>}
SourceMaps ==
    {m \in MapsFrom(1, Len(LocaleOrder)) : \A i \in DOMAIN m : m[i].dict \in SourceDicts}

\* The input directory that holds a translation map: a directory a locale,
\* with the translation file of the locale's dictionary, or with no file for a
\* locale without a key.
DirOf(map) ==
    [i \in DOMAIN map |->
        [name |-> map[i].locale, isDirectory |-> TRUE,
         file |-> IF map[i].dict = <<>> THEN NoTranslationFile
                  ELSE TranslationFile(JsonOf(map[i].dict))]]
SourceDirs == {DirOf(m) : m \in SourceMaps}

\* The --localeColumnNames a run may be given: none, or the README's for en.
LocaleColumnNameOptions == {<<>>, <<[key |-> "en", value |-> "English"]>>}

\* The options of a run: the defaults of opts, with the command line's
\* localeColumnNames, showDeletedInJournal and showOldValueInJournal.
Options ==
    [localeColumnNames : LocaleColumnNameOptions,
     translationKeyColumnName : {"SYSTEM_KEY"},
     showDeletedInJournal : BOOLEAN,
     showOldValueInJournal : BOOLEAN]

----------------------------------------------------------------------------
(* The state *)

VARIABLES
    pc,                 \* where the process is: idle (not running), headers,
                        \* data (the csv parser's events), done, aborted
    runs,               \* the number of runs started
    opts,               \* the options of the run
    inputDir,           \* the input directory as the run found it
    translationMap,     \* the current translation map
    translationKeys,    \* its canonical key set
    oldTranslationMap,  \* the map rebuilt from the previous export
    stream,             \* what the read stream has yet to deliver: the
                        \* headers and the lines of the previous export
    diff,               \* the diff of the run, once computed
    outputFile,         \* the translation file, on disk
    journalFile,        \* the file at the journal path of the run, on disk
    metaDataFile,       \* the meta data file, on disk
    lastRun,            \* history: the previous run and the files it left
    snapshot,           \* history: the previous export as the run found it
    trace               \* history: the calls of the run, in their order

vars == <<pc, runs, opts, inputDir, translationMap, translationKeys, oldTranslationMap, stream,
          diff, outputFile, journalFile, metaDataFile, lastRun, snapshot, trace>>

NoDiff == [computed |-> FALSE, threw |-> FALSE, inserted |-> <<>>, updated |-> <<>>,
           deleted |-> <<>>]

NoRun == [completed |-> FALSE, translationMap |-> <<>>, localeColumnNames |-> <<>>,
          outputFile |-> NoFile, metaDataFile |-> NoFile]

DefaultOptions ==
    [localeColumnNames |-> <<>>, translationKeyColumnName |-> "SYSTEM_KEY",
     showDeletedInJournal |-> FALSE, showOldValueInJournal |-> FALSE]

Init ==
    /\ pc = "idle"
    /\ runs = 0
    /\ opts = DefaultOptions
    /\ inputDir = <<>>
    /\ translationMap = <<>>
    /\ translationKeys = <<>>
    /\ oldTranslationMap = <<>>
    /\ stream = [headers |-> <<>>, rows |-> <<>>]
    /\ diff = NoDiff
    /\ outputFile = NoFile
    /\ journalFile = NoFile
    /\ metaDataFile = NoFile
    /\ lastRun = NoRun
    /\ snapshot = NoFile
    /\ trace = <<>>

----------------------------------------------------------------------------
(* The calls of a run *)

\* A call of the run: a function of the program or a handler of the read
\* stream, and the path it works on ("" for a function that touches no file).
Call(name, path) == [call |-> name, path |-> path]

\* Mutant of fileCalls: the writer is opened before the file is removed.
fileCallsWriterFirst(path) ==
    <<Call("createWriter", path), Call("cleanFile", path), Call("writer.end", path)>>

\* The calls every generate function makes on its file: cleanFile, then
\* createWriter, then, after the rows, writer.end().
fileCalls(path) ==
    <<Call("cleanFile", path), Call("createWriter", path), Call("writer.end", path)>>

\* The calls of the end handler between the translation file and the journal.
diffCalls ==
    <<Call("getInsertedTranslationKeys", ""), Call("getUpdatedTranslationKeys", ""),
      Call("getDeletedTranslationKeys", ""), Call("isJournalGenerated", "")>>

\* The calls of exportTranslations before it looks for a previous export.
readCalls == <<Call("getTranslationMap", "inputDir"), Call("getTranslationKeys", "")>>

\* Mutant of endOfStream: the end event may overtake the lines.
endOfStreamAnyTime(s) == TRUE

\* The csv parser emits end once it has delivered every line of the file.
endOfStream(s) == s.rows = <<>>

----------------------------------------------------------------------------
(* The run: exportTranslations and the handlers of the csv parser's events *)

\* Mutant of exportWithoutPrevious: the meta data file is not written.
exportWithoutPreviousNoMeta(source, options) ==
    [outputFile |-> generateTranslationFile(source, getTranslationKeys(source),
                        options.translationKeyColumnName, options.localeColumnNames),
     metaDataFile |-> NoFile]

\* The files of a run that finds no previous export: the translation file and
\* the meta data file, and no diff.
exportWithoutPrevious(source, options) ==
    [outputFile |-> generateTranslationFile(source, getTranslationKeys(source),
                        options.translationKeyColumnName, options.localeColumnNames),
     metaDataFile |-> generateTranslationMetaFile(source)]

\* The run up to the first event, on some input directory of sources and
\* with some options of optionSet: the translations are read, which ends the
\* run if a translation file has no object or getTranslationKeys throws;
\* without a previous export the translation file and the meta data file are
\* written, with one the file is handed to the csv parser.
exportTranslationsOf(sources, optionSet) ==
    /\ pc = "idle"
    /\ runs < MaxRuns
    /\ runs' = runs + 1
    /\ \E dir \in sources, options \in optionSet :
          LET read == getTranslationMap(dir)
              source == read.map
          IN  /\ inputDir' = dir
              /\ opts' = options
              /\ IF read.threw \/ getTranslationKeysThrows(source)
                 THEN /\ pc' = "aborted"
                      /\ translationMap' = source
                      /\ translationKeys' = <<>>
                      /\ trace' = IF read.threw THEN SubSeq(readCalls, 1, 1) ELSE readCalls
                      /\ UNCHANGED <<stream, outputFile, metaDataFile>>
                 ELSE /\ translationMap' = source
                      /\ translationKeys' = getTranslationKeys(source)
                      /\ IF outputFile.exists
                         THEN /\ stream' = [headers |-> outputFile.headers,
                                            rows |-> outputFile.rows]
                              /\ pc' = IF outputFile.headers = <<>> THEN "data"
                                                                    ELSE "headers"
                              /\ trace' = Append(readCalls,
                                                 Call("createReadStream", "outputFile"))
                              /\ UNCHANGED <<outputFile, metaDataFile>>
                         ELSE /\ outputFile' = exportWithoutPrevious(source, options).outputFile
                              /\ metaDataFile' =
                                     exportWithoutPrevious(source, options).metaDataFile
                              /\ pc' = "done"
                              /\ trace' = readCalls \o fileCalls("outputFile")
                                                    \o fileCalls("metaDataFile")
                              /\ UNCHANGED stream
    /\ snapshot' = outputFile
    /\ oldTranslationMap' = <<>>
    /\ diff' = NoDiff
    /\ journalFile' = NoFile
    /\ UNCHANGED lastRun

\* A run on well-formed translation files with the options of the command line.
exportTranslations == exportTranslationsOf(SourceDirs, Options)

\* The loop of the headers handler: a locale for every column but the key's.
RECURSIVE localesOfHeaders(_, _, _, _)
localesOfHeaders(map, headers, translationKeyColumnName, localeColumnNames) ==
    IF headers = <<>> THEN map
    ELSE LET locale == getLocaleFromColumnName(Head(headers), localeColumnNames)
         IN  localesOfHeaders(
                 IF Head(headers) # translationKeyColumnName /\ ~HasLocale(map, locale)
                 THEN Append(map, [locale |-> locale, dict |-> <<>>])
                 ELSE map,
                 Tail(headers), translationKeyColumnName, localeColumnNames)

\* on('headers'): the locales of the old map; an Error without a key column.
headersHandler ==
    /\ pc = "headers"
    /\ oldTranslationMap' = localesOfHeaders(oldTranslationMap, stream.headers,
                                opts.translationKeyColumnName, opts.localeColumnNames)
    /\ pc' = IF \E i \in DOMAIN stream.headers :
                    stream.headers[i] = opts.translationKeyColumnName
             THEN "data"
             ELSE "aborted"
    /\ trace' = Append(trace, Call("headers", "outputFile"))
    /\ UNCHANGED <<runs, opts, inputDir, translationMap, translationKeys, stream, diff,
                   outputFile, journalFile, metaDataFile, lastRun, snapshot>>

\* The data handler on one parsed row: with a key in the row, every locale of
\* the old map gets the row's value under the locale's column name.
replayRow(map, data, translationKeyColumnName, localeColumnNames) ==
    [i \in DOMAIN map |->
        IF Truthy(Get(data, translationKeyColumnName))
        THEN [map[i] EXCEPT !.dict =
                 SetProp(@, Get(data, translationKeyColumnName),
                         Get(data, getColumnNameFromLocale(map[i].locale,
                                                           localeColumnNames)))]
        ELSE map[i]]

\* on('data'): the next line of the previous export.
dataHandler ==
    /\ pc = "data"
    /\ stream.rows # <<>>
    /\ oldTranslationMap' = replayRow(oldTranslationMap,
                                      ParsedRow(stream.headers, Head(stream.rows)),
                                      opts.translationKeyColumnName,
                                      opts.localeColumnNames)
    /\ stream' = [stream EXCEPT !.rows = Tail(@)]
    /\ trace' = Append(trace, Call("data", "outputFile"))
    /\ UNCHANGED <<pc, runs, opts, inputDir, translationMap, translationKeys, diff,
                   outputFile, journalFile, metaDataFile, lastRun, snapshot>>

\* on('end'): the translation file, the diff, the journal if there is a
\* change to report, the meta data file.  A TypeError in getTranslationKeys
\* of the old map or in getUpdatedTranslationKeys ends the process after the
\* translation file was removed and its writer opened, with none of its rows
\* flushed: the file is then missing or empty.
endHandler ==
    /\ pc = "data"
    /\ endOfStream(stream)
    /\ LET oldKeysThrew == getTranslationKeysThrows(oldTranslationMap)
           inserted == getInsertedTranslationKeys(oldTranslationMap, translationMap)
           updated == getUpdatedTranslationKeys(oldTranslationMap, translationMap)
           deleted == getDeletedTranslationKeys(oldTranslationMap, translationMap)
       IN  IF oldKeysThrew \/ updated.threw
           THEN /\ pc' = "aborted"
                /\ outputFile' \in {NoFile, NewFile}
                /\ diff' = [computed |-> FALSE, threw |-> TRUE,
                            inserted |-> IF oldKeysThrew THEN <<>> ELSE inserted,
                            updated |-> <<>>, deleted |-> <<>>]
                /\ trace' = trace \o <<Call("end", "outputFile")>>
                                  \o fileCalls("outputFile")
                                  \o SubSeq(diffCalls, 1, IF oldKeysThrew THEN 1 ELSE 2)
                /\ UNCHANGED <<journalFile, metaDataFile>>
           ELSE /\ pc' = "done"
                /\ outputFile' = generateTranslationFile(translationMap, translationKeys,
                                     opts.translationKeyColumnName, opts.localeColumnNames)
                /\ diff' = [computed |-> TRUE, threw |-> FALSE, inserted |-> inserted,
                            updated |-> updated.keys, deleted |-> deleted]
                /\ journalFile' =
                       IF isJournalGenerated(inserted, updated.keys, deleted,
                                             opts.showDeletedInJournal)
                       THEN generateJournalFile(translationMap, oldTranslationMap,
                                inserted, updated.keys, deleted,
                                opts.translationKeyColumnName, opts.localeColumnNames,
                                opts.showDeletedInJournal, opts.showOldValueInJournal)
                       ELSE journalFile
                /\ metaDataFile' = generateTranslationMetaFile(translationMap)
                /\ trace' = trace \o <<Call("end", "outputFile")>>
                                  \o fileCalls("outputFile")
                                  \o diffCalls
                                  \o (IF isJournalGenerated(inserted, updated.keys, deleted,
                                                            opts.showDeletedInJournal)
                                      THEN fileCalls("journalFile")
                                      ELSE <<>>)
                                  \o fileCalls("metaDataFile")
    /\ UNCHANGED <<runs, opts, inputDir, translationMap, translationKeys,
                   oldTranslationMap, stream, lastRun, snapshot>>

\* The process ends: what it held in memory is gone, the files stay.  lastRun
\* keeps what the run was given and left, for the next run to be compared with.
exit ==
    /\ pc \in {"done", "aborted"}
    /\ pc' = "idle"
    /\ lastRun' = IF pc = "done"
                  THEN [completed |-> TRUE, translationMap |-> translationMap,
                        localeColumnNames |-> opts.localeColumnNames,
                        outputFile |-> outputFile, metaDataFile |-> metaDataFile]
                  ELSE NoRun
    /\ opts' = DefaultOptions
    /\ inputDir' = <<>>
    /\ translationMap' = <<>>
    /\ translationKeys' = <<>>
    /\ oldTranslationMap' = <<>>
    /\ stream' = [headers |-> <<>>, rows |-> <<>>]
    /\ diff' = NoDiff
    /\ journalFile' = NoFile
    /\ snapshot' = NoFile
    /\ trace' = <<>>
    /\ UNCHANGED <<runs, outputFile, metaDataFile>>

Next ==
    \/ exportTranslations
    \/ headersHandler
    \/ dataHandler
    \/ endHandler
    \/ exit

Spec == Init /\ [][Next]_vars

----------------------------------------------------------------------------
(* The end handler on every pair of translation maps *)

\* The state in which the end event arrives, for any old and current map and
\* any setting of the two journal options.
InitDiff ==
    /\ pc = "data"
    /\ runs = 1
    /\ opts \in {o \in Options : o.localeColumnNames = <<>>}
    /\ translationMap \in MapsFrom(1, MaxEntries)
    /\ inputDir = DirOf(translationMap)
    /\ translationKeys = getTranslationKeys(translationMap)
    /\ oldTranslationMap \in MapsFrom(1, MaxEntries - NumEntries(translationMap))
    /\ stream = [headers |-> <<>>, rows |-> <<>>]
    /\ diff = NoDiff
    /\ outputFile = NewFile
    /\ journalFile = NoFile
    /\ metaDataFile = NoFile
    /\ lastRun = NoRun
    /\ snapshot = NewFile
    /\ trace = Append(readCalls, Call("createReadStream", "outputFile"))

NextDiff == endHandler

SpecDiff == InitDiff /\ [][NextDiff]_vars

----------------------------------------------------------------------------
(* One run, on what earlier runs may have left at the output path *)

\* The maps earlier runs may have exported, and the names they may have been
\* given for the translation key column.
PriorDicts ==
    {<<>>, <<[key |-> "a", value |-> "hi"]>>, <<[key |-> "b", value |-> "hi"]>>}
PriorMaps == {m \in SourceMaps : \A i \in DOMAIN m : m[i].dict \in PriorDicts}
PriorKeyColumnNames == {"SYSTEM_KEY", "KEY"}

\* Before the last run of a behaviour: no file at the output path, an empty
\* one, or the export and the meta data of an earlier run.
InitRun ==
    /\ pc = "idle"
    /\ runs = MaxRuns - 1
    /\ opts = DefaultOptions
    /\ inputDir = <<>>
    /\ translationMap = <<>>
    /\ translationKeys = <<>>
    /\ oldTranslationMap = <<>>
    /\ stream = [headers |-> <<>>, rows |-> <<>>]
    /\ diff = NoDiff
    /\ \/ outputFile \in {NoFile, NewFile} /\ metaDataFile = NoFile
       \/ \E m \in PriorMaps, name \in PriorKeyColumnNames :
              /\ outputFile = generateTranslationFile(m, getTranslationKeys(m), name, <<>>)
              /\ metaDataFile = generateTranslationMetaFile(m)
    /\ journalFile = NoFile
    /\ lastRun = NoRun
    /\ snapshot = NoFile
    /\ trace = <<>>

\* The end event of the read stream, told by where it leaves the process: once
\* every line is delivered, the only step that moves pc is the end handler's.
endEvent ==
    /\ pc = "data"
    /\ stream.rows = <<>>
    /\ pc' \in {"done", "aborted"}

\* The csv parser delivers the events of the file it was handed: the headers,
\* every line, the end.
SpecRun ==
    /\ InitRun
    /\ [][Next]_vars
    /\ WF_vars(headersHandler)
    /\ WF_vars(dataHandler)
    /\ WF_pc(endEvent)

----------------------------------------------------------------------------
(* One run, on any input directory and any column names *)

\* The translation keys of the input directories, in any order in a file.
InputKeyNames == {"a", "b", "hasOwnProperty"}
KeyOrderDicts ==
    {<<>>} \cup {<<[key |-> k, value |-> "hi"]>> : k \in InputKeyNames}
           \cup UNION {{<<[key |-> k1, value |-> "hi"], [key |-> k2, value |-> "hi"]>> :
                            k2 \in InputKeyNames \ {k1}} : k1 \in InputKeyNames}
KeyOrderMaps ==
    {<<>>} \cup {<<[locale |-> l, dict |-> d]>> : l \in Range(LocaleOrder), d \in KeyOrderDicts}
           \cup {<<[locale |-> LocaleOrder[1], dict |-> d1],
                    [locale |-> LocaleOrder[2], dict |-> d2]>> :
                     d1 \in KeyOrderDicts, d2 \in KeyOrderDicts}

\* Translation files without a "{", without a "}", and with a text that is
\* not JSON between the two.
MalformedFiles ==
    {[exists |-> TRUE, open |-> FALSE, close |-> TRUE, json |-> FALSE, object |-> <<>>],
     [exists |-> TRUE, open |-> TRUE, close |-> FALSE, json |-> FALSE, object |-> <<>>],
     [exists |-> TRUE, open |-> TRUE, close |-> TRUE, json |-> FALSE, object |-> <<>>]}

\* The translation file { "a": { "b": "hi" } }.
NestedFile ==
    TranslationFile(<<[key |-> "a", isObject |-> TRUE, value |-> "",
                       entries |-> <<[key |-> "b", value |-> "hi"]>>]>>)

\* Input directories with a file that is no locale directory, and with
\* malformed, nested, plain and missing translation files.
InputFiles ==
    MalformedFiles \cup
    {NoTranslationFile, NestedFile, TranslationFile(JsonOf(<<[key |-> "a", value |-> "hi"]>>))}
MixedDirs ==
    {<<[name |-> LocaleOrder[1], isDirectory |-> TRUE, file |-> f1],
       [name |-> LocaleOrder[2], isDirectory |-> TRUE, file |-> f2]>> :
        f1 \in InputFiles, f2 \in InputFiles}
    \cup {<<[name |-> "README", isDirectory |-> FALSE, file |-> NoTranslationFile],
             [name |-> LocaleOrder[1], isDirectory |-> TRUE, file |-> f]>> : f \in InputFiles}
InputDirs == {DirOf(m) : m \in KeyOrderMaps} \cup MixedDirs

\* Column names: none, the README's, one that is another locale's column,
\* one that is the translation key column.
InputLocaleColumnNames ==
    {<<>>,
     <<[key |-> "en", value |-> "English"]>>,
     <<[key |-> "en", value |-> "fr"]>>,
     <<[key |-> "fr", value |-> "system_key"]>>}
InputOptions ==
    [localeColumnNames : InputLocaleColumnNames,
     translationKeyColumnName : {"SYSTEM_KEY"},
     showDeletedInJournal : BOOLEAN,
     showOldValueInJournal : {FALSE}]

\* The map an earlier run may have exported.
InputPriorMap ==
    <<[locale |-> "en", dict |-> <<[key |-> "a", value |-> "hi"]>>],
      [locale |-> "fr", dict |-> <<[key |-> "b", value |-> "hi"]>>]>>

\* Before the last run of a behaviour: nothing in the output directory, or
\* the export and the meta data of an earlier run.
InitInput ==
    /\ pc = "idle"
    /\ runs = MaxRuns - 1
    /\ opts = DefaultOptions
    /\ inputDir = <<>>
    /\ translationMap = <<>>
    /\ translationKeys = <<>>
    /\ oldTranslationMap = <<>>
    /\ stream = [headers |-> <<>>, rows |-> <<>>]
    /\ diff = NoDiff
    /\ \/ outputFile = NoFile /\ metaDataFile = NoFile
       \/ /\ outputFile = generateTranslationFile(InputPriorMap,
                               getTranslationKeys(InputPriorMap), "SYSTEM_KEY", <<>>)
          /\ metaDataFile = generateTranslationMetaFile(InputPriorMap)
    /\ journalFile = NoFile
    /\ lastRun = NoRun
    /\ snapshot = NoFile
    /\ trace = <<>>

exportAnyInput == exportTranslationsOf(InputDirs, InputOptions)

NextInput ==
    \/ exportAnyInput
    \/ headersHandler
    \/ dataHandler
    \/ endHandler
    \/ exit

SpecInput == InitInput /\ [][NextInput]_vars

----------------------------------------------------------------------------
(* What the claims are stated with *)

\* The canonical key set of a map as a set: the keys some locale has.
KeySet(map) == UNION {{map[i].dict[j].key : j \in DOMAIN map[i].dict} : i \in DOMAIN map}

\* The end handler has run: it computed the diff, or its diff threw.
Diffed == diff.computed \/ diff.threw

\* The cell of line r of a csv file under the header col.
CellUnder(file, r, col) ==
    file.rows[r][CHOOSE i \in DOMAIN file.headers : file.headers[i] = col]

\* The translation keys and the update types of the lines of the journal
\* between its first and its last line.
JournalKeys ==
    [r \in 1..(Len(journalFile.rows) - 2) |->
        CellUnder(journalFile, r + 1, opts.translationKeyColumnName)]
JournalTypes ==
    [r \in 1..(Len(journalFile.rows) - 2) |-> CellUnder(journalFile, r + 1, "UPDATE_TYPE")]

\* The keys of the journal's lines of one update type, in the journal's order.
RECURSIVE KeysOfType(_, _, _)
KeysOfType(keys, types, updateType) ==
    IF keys = <<>> THEN <<>>
    ELSE (IF Head(types) = updateType THEN <<Head(keys)>> ELSE <<>>)
         \o KeysOfType(Tail(keys), Tail(types), updateType)

\* The keys the journal is to report: inserted, updated, and deleted if shown.
Reported ==
    Range(diff.inserted) \cup Range(diff.updated) \cup
    (IF opts.showDeletedInJournal THEN Range(diff.deleted) ELSE {})

\* A key is updated, as the diff engine is specified: it is in both canonical
\* key sets and some locale of both maps had a truthy value that differs now.
SpecifiedUpdated(k) ==
    /\ k \in KeySet(oldTranslationMap) \cap KeySet(translationMap)
    /\ \E i \in DOMAIN oldTranslationMap :
          LET l == oldTranslationMap[i].locale
          IN  /\ HasLocale(translationMap, l)
              /\ Truthy(Translation(oldTranslationMap, l, k))
              /\ Translation(oldTranslationMap, l, k) # Translation(translationMap, l, k)

----------------------------------------------------------------------------
(* The claims *)

\* C1: a run that follows a completed run, with the same translation map and
\* the same column names, completes, leaves the translation file and the meta
\* data file as the first run left them, finds nothing inserted, updated or
\* deleted and writes no journal.
C1_IdempotentRerun ==
    (/\ pc \in {"done", "aborted"}
     /\ lastRun.completed
     /\ lastRun.translationMap = translationMap
     /\ lastRun.localeColumnNames = opts.localeColumnNames)
    => (/\ pc = "done"
        /\ outputFile = lastRun.outputFile
        /\ metaDataFile = lastRun.metaDataFile
        /\ ~journalFile.exists
        /\ diff.inserted = <<>> /\ diff.updated = <<>> /\ diff.deleted = <<>>)

\* C2: no key is in two of the inserted, the updated and the deleted keys.
C2_ExclusiveClasses ==
    \A k \in KeySet(oldTranslationMap) \cup KeySet(translationMap) :
        /\ ~(Includes(diff.inserted, k) /\ Includes(diff.updated, k))
        /\ ~(Includes(diff.inserted, k) /\ Includes(diff.deleted, k))
        /\ ~(Includes(diff.updated, k) /\ Includes(diff.deleted, k))

\* A diff with an updated and a deleted key, the old map holding both.
C2_Witness ==
    /\ diff.computed
    /\ diff.updated # <<>>
    /\ diff.deleted # <<>>
    /\ opts.showDeletedInJournal

\* A key that the diff engine's specification leaves unchanged.
SpecifiedUnchanged(k) ==
    /\ k \in KeySet(oldTranslationMap) \cap KeySet(translationMap)
    /\ ~SpecifiedUpdated(k)

\* C3: on every pair of maps the three diff functions return, and every key of
\* either map is exactly one of unchanged, inserted, updated and deleted.
C3_DiffCompletes ==
    Diffed =>
        /\ diff.computed
        /\ \A k \in KeySet(oldTranslationMap) \cup KeySet(translationMap) :
              Cardinality({c \in {"unchanged", "inserted", "updated", "deleted"} :
                  \/ c = "unchanged" /\ SpecifiedUnchanged(k)
                  \/ c = "inserted" /\ Includes(diff.inserted, k)
                  \/ c = "updated" /\ Includes(diff.updated, k)
                  \/ c = "deleted" /\ Includes(diff.deleted, k)}) = 1

C6_UpdatedExact ==
    Diffed =>
        \A k \in KeySet(oldTranslationMap) \cup KeySet(translationMap) :
            Includes(diff.updated, k) <=> SpecifiedUpdated(k)

\* What holds of getUpdatedTranslationKeys on the pairs on which it returns.
UpdatedExactWhereReturned ==
    diff.computed =>
        \A k \in KeySet(oldTranslationMap) \cup KeySet(translationMap) :
            Includes(diff.updated, k) <=> SpecifiedUpdated(k)

\* C7: a run with a previous export writes the journal if and only if a key
\* is inserted, or a key is updated, or deletions are shown and a key is deleted.
C7_JournalIffChange ==
    Diffed =>
        (journalFile.exists <=>
            \/ diff.inserted # <<>>
            \/ diff.updated # <<>>
            \/ (opts.showDeletedInJournal /\ diff.deleted # <<>>))

\* What holds of the journal in the runs that reach the decision to write it.
JournalIffChangeWhereDecided ==
    diff.computed =>
        (journalFile.exists <=>
            \/ diff.inserted # <<>>
            \/ diff.updated # <<>>
            \/ (opts.showDeletedInJournal /\ diff.deleted # <<>>))

C9_OneRowPerKey ==
    journalFile.exists =>
        /\ Range(JournalKeys) = Reported
        /\ NoDuplicates(JournalKeys)

\* The place of an update type in the order of the journal's groups.
GroupRank(updateType) ==
    CASE updateType = UpdateTypeINSERT -> 1
      [] updateType = UpdateTypeUPDATE -> 2
      [] updateType = UpdateTypeDELETE -> 3
      [] OTHER -> 0

\* C10: the journal is a blank line, the inserted keys' lines tagged NEW in the
\* canonical order of the current map, the updated keys' lines tagged UPDATE,
\* the deleted keys' lines tagged DELETE if deletions are shown, and a blank
\* line; no line of a later group precedes a line of an earlier group.
C10_JournalRowOrder ==
    journalFile.exists =>
        LET n == Len(journalFile.rows)
            blankRow(r) == \A c \in DOMAIN journalFile.rows[r] : journalFile.rows[r][c] = ""
        IN  /\ n >= 2
            /\ blankRow(1) /\ blankRow(n)
            /\ \A r \in DOMAIN JournalTypes : GroupRank(JournalTypes[r]) > 0
            /\ \A r1, r2 \in DOMAIN JournalTypes :
                   r1 < r2 => GroupRank(JournalTypes[r1]) <= GroupRank(JournalTypes[r2])
            /\ KeysOfType(JournalKeys, JournalTypes, UpdateTypeINSERT)
                   = SelectSeq(translationKeys, LAMBDA k : k \in Range(diff.inserted))
            /\ KeysOfType(JournalKeys, JournalTypes, UpdateTypeUPDATE) = diff.updated
            /\ KeysOfType(JournalKeys, JournalTypes, UpdateTypeDELETE)
                   = IF opts.showDeletedInJournal THEN diff.deleted ELSE <<>>

\* A journal with a line of each of two groups, deletions shown.
C10_Witness ==
    /\ journalFile.exists
    /\ opts.showDeletedInJournal
    /\ \E r1, r2 \in DOMAIN JournalTypes :
          /\ r1 < r2
          /\ JournalTypes[r1] = UpdateTypeUPDATE
          /\ JournalTypes[r2] = UpdateTypeDELETE

\* C11: with deletions hidden, no line of the journal is tagged DELETE or is
\* the line of a deleted key; with deletions shown, every deleted key has a
\* line tagged DELETE in the journal of the run.
C11_DeletionVisibility ==
    Diffed =>
        LET deleted == getDeletedTranslationKeys(oldTranslationMap, translationMap)
        IN  IF opts.showDeletedInJournal
            THEN \A k \in Range(deleted) :
                     /\ journalFile.exists
                     /\ \E r \in DOMAIN JournalKeys :
                            JournalKeys[r] = k /\ JournalTypes[r] = UpdateTypeDELETE
            ELSE \A r \in DOMAIN JournalKeys :
                     /\ JournalTypes[r] # UpdateTypeDELETE
                     /\ JournalKeys[r] \notin Range(deleted)

\* What holds of the deleted keys in the runs that reach the journal.
DeletionVisibilityWhereDecided ==
    diff.computed =>
        IF opts.showDeletedInJournal
        THEN \A k \in Range(diff.deleted) :
                 /\ journalFile.exists
                 /\ \E r \in DOMAIN JournalKeys :
                        JournalKeys[r] = k /\ JournalTypes[r] = UpdateTypeDELETE
        ELSE \A r \in DOMAIN JournalKeys :
                 /\ JournalTypes[r] # UpdateTypeDELETE
                 /\ JournalKeys[r] \notin Range(diff.deleted)

\* The columns of the current and of the old values of the run's locales.
PlainColumns ==
    {getLocaleColumnName(translationMap[i].locale, opts.localeColumnNames) :
        i \in DOMAIN translationMap}
OldColumns ==
    {getLocaleColumnName(oldTranslationMap[i].locale, opts.localeColumnNames) \o "_OLD" :
        i \in DOMAIN oldTranslationMap}

C13_NumberOfKeys ==
    (pc = "done" /\ metaDataFile.exists) =>
        \A i \in DOMAIN translationMap :
            CellUnder(metaDataFile, i + 1, "NUMBER_OF_KEYS")
                = ToString(Len(translationMap[i].dict))

\* The meta data file is a row of empty cells under LOCALE, NUMBER_OF_KEYS and
\* NUMBER_OF_WORDS and a row for every locale of the current map, in its order.
MetaDataWritten ==
    /\ metaDataFile.exists
    /\ metaDataFile.headers = <<"LOCALE", "NUMBER_OF_KEYS", "NUMBER_OF_WORDS">>
    /\ Len(metaDataFile.rows) = Len(translationMap) + 1
    /\ \A c \in DOMAIN metaDataFile.rows[1] : metaDataFile.rows[1][c] = ""
    /\ \A i \in DOMAIN translationMap :
           CellUnder(metaDataFile, i + 1, "LOCALE") = translationMap[i].locale

\* C14: a run that has ended without a fatal error has written the meta data
\* file, and a run that reads a previous export comes to abort on a fatal
\* error or to end with the meta data file written, whatever it finds changed
\* and whether or not it writes a journal.
C14_MetaDataAlwaysWritten ==
    /\ [](pc = "done" => MetaDataWritten)
    /\ (pc \in {"headers", "data"}) ~> (pc = "aborted" \/ (pc = "done" /\ MetaDataWritten))

\* A run with a previous export that finds nothing to report and has written
\* the meta data of two locales.
C14_Witness ==
    /\ pc = "done"
    /\ diff.computed
    /\ ~journalFile.exists
    /\ Len(translationMap) = 2
    /\ MetaDataWritten

NoKeyColumn(headers, translationKeyColumnName) ==
    \A i \in DOMAIN headers : headers[i] # translationKeyColumnName

\* C16: a run that finds a translation file none of whose headers is the
\* translation key column aborts in the headers handler; it computes no diff
\* and leaves the translation file, the journal and the meta data file alone.
C16_MalformedSnapshot ==
    [][/\ (/\ pc = "idle" /\ pc' \notin {"idle", "aborted"}
           /\ outputFile.exists
           /\ NoKeyColumn(outputFile.headers, opts'.translationKeyColumnName))
          => (/\ pc' = "headers"
              /\ UNCHANGED <<outputFile, journalFile, metaDataFile>>)
       /\ (/\ pc = "headers"
           /\ NoKeyColumn(stream.headers, opts.translationKeyColumnName))
          => (/\ pc' = "aborted"
              /\ ~diff'.computed /\ ~diff'.threw
              /\ UNCHANGED <<outputFile, journalFile, metaDataFile>>)]_vars

\* What holds of the runs that find a translation file with a header line.
MalformedSnapshotWithHeaders ==
    [][/\ (/\ pc = "idle" /\ pc' \notin {"idle", "aborted"}
           /\ outputFile.exists
           /\ outputFile.headers # <<>>
           /\ NoKeyColumn(outputFile.headers, opts'.translationKeyColumnName))
          => (/\ pc' = "headers"
              /\ UNCHANGED <<outputFile, journalFile, metaDataFile>>)
       /\ (/\ pc = "headers"
           /\ NoKeyColumn(stream.headers, opts.translationKeyColumnName))
          => (/\ pc' = "aborted"
              /\ ~diff'.computed /\ ~diff'.threw
              /\ UNCHANGED <<outputFile, journalFile, metaDataFile>>)]_vars

\* A translation file of a locale directory has no object that parses.
Malformed(dir) ==
    \E i \in DOMAIN getLocales(dir) :
        LET file == getLocales(dir)[i].file
        IN  file.exists /\ ~(file.open /\ file.close /\ file.json)

\* C17: a run on an input directory with a translation file that has no
\* object that parses aborts, and no step of it creates, removes or changes
\* the translation file, the journal or the meta data file.
C17_MalformedSource ==
    [][/\ (pc = "idle" /\ pc' # "idle" /\ Malformed(inputDir')) => pc' = "aborted"
       /\ (Malformed(inputDir) \/ Malformed(inputDir'))
          => UNCHANGED <<outputFile, journalFile, metaDataFile>>]_vars

\* A run aborted on a malformed translation file of one locale, another
\* locale's file being read before it, with an export of an earlier run there.
C17_Witness ==
    /\ pc = "aborted"
    /\ Len(inputDir) = 2
    /\ ~Malformed(<<inputDir[1]>>)
    /\ inputDir[1].file.exists
    /\ Malformed(<<inputDir[2]>>)
    /\ outputFile.exists
    /\ metaDataFile.exists

\* The locales of a translation map, in its order.
LocalesOf(map) == [i \in DOMAIN map |-> map[i].locale]

\* C18: the locale of the column name of a locale is the locale, for every
\* locale of the current map and the column names of the run; the map rebuilt
\* from the export of a run with the same column names has the locales of the
\* map that was exported.
C18_ColumnNameRoundTrip ==
    /\ \A i \in DOMAIN translationMap :
           getLocaleFromColumnName(
               getLocaleColumnName(translationMap[i].locale, opts.localeColumnNames),
               opts.localeColumnNames) = translationMap[i].locale
    /\ (/\ pc = "data"
        /\ lastRun.completed
        /\ lastRun.localeColumnNames = opts.localeColumnNames)
       => LocalesOf(oldTranslationMap) = LocalesOf(lastRun.translationMap)

\* What holds of the locales without a column name of their own.
RoundTripWithoutColumnName ==
    \A i \in DOMAIN translationMap :
        Get(opts.localeColumnNames, translationMap[i].locale) = UNDEFINED
        => getLocaleFromColumnName(
               getLocaleColumnName(translationMap[i].locale, opts.localeColumnNames),
               opts.localeColumnNames) = translationMap[i].locale

\* The keys of a map in the order of the locales and of their dictionaries,
\* a key as often as it occurs, and the first place of a key in them.
RECURSIVE KeysInOrder(_)
KeysInOrder(map) ==
    IF map = <<>> THEN <<>>
    ELSE [j \in DOMAIN Head(map).dict |-> Head(map).dict[j].key] \o KeysInOrder(Tail(map))
FirstPlace(keys, k) ==
    CHOOSE i \in DOMAIN keys : keys[i] = k /\ \A j \in 1..(i - 1) : keys[j] # k

\* The keys are every key of the map once, in the order of first encounter.
KeysAsSpecified(keys, map) ==
    /\ NoDuplicates(keys)
    /\ Range(keys) = KeySet(map)
    /\ \A i, j \in DOMAIN keys :
           i < j => FirstPlace(KeysInOrder(map), keys[i]) < FirstPlace(KeysInOrder(map), keys[j])

\* C19: on every translation map getTranslationKeys returns, and returns every
\* key of every locale once, in the order of first encounter over the locales
\* and their dictionaries; the run has these keys.
C19_TranslationKeys ==
    (pc # "idle" /\ ~getTranslationMap(inputDir).threw) =>
        /\ ~getTranslationKeysThrows(translationMap)
        /\ KeysAsSpecified(getTranslationKeys(translationMap), translationMap)
        /\ translationKeys = getTranslationKeys(translationMap)

\* What holds of getTranslationKeys on the maps on which it returns.
TranslationKeysWhereReturned ==
    (pc # "idle" /\ ~getTranslationKeysThrows(translationMap)) =>
        /\ KeysAsSpecified(getTranslationKeys(translationMap), translationMap)
        /\ pc # "aborted" => translationKeys = getTranslationKeys(translationMap)

\* C20: the translation file a run has written has the translation key column
\* and a column of its own for every locale of the current map: no two
\* locales have the same column and no locale has the translation key column.
C20_DistinctColumns ==
    pc = "done" =>
        LET column(i) == getLocaleColumnName(translationMap[i].locale,
                                             opts.localeColumnNames)
        IN  /\ \A i, j \in DOMAIN translationMap : i # j => column(i) # column(j)
            /\ \A i \in DOMAIN translationMap : column(i) # opts.translationKeyColumnName
            /\ Len(outputFile.headers) = Len(translationMap) + 1
            /\ NoDuplicates(outputFile.headers)

----------------------------------------------------------------------------
(* The read of the previous export and the order of the run's work *)

\* The places of the calls of one name in the trace of the run.
Places(name) == {i \in DOMAIN trace : trace[i].call = name}

\* The places of the calls of the diff functions and of the journal decision.
DiffPlaces == UNION {Places(diffCalls[i].call) : i \in DOMAIN diffCalls}

\* The map the handlers rebuild from a whole file: the locales of its headers,
\* then every line replayed in the file's order.
RECURSIVE replayRows(_, _, _, _)
replayRows(map, headers, rows, options) ==
    IF rows = <<>> THEN map
    ELSE replayRows(replayRow(map, ParsedRow(headers, Head(rows)),
                              options.translationKeyColumnName, options.localeColumnNames),
                    headers, Tail(rows), options)
Reconstructed(file, options) ==
    replayRows(localesOfHeaders(<<>>, file.headers, options.translationKeyColumnName,
                                options.localeColumnNames),
               file.headers, file.rows, options)

\* C21: in a run that reads a previous export the headers handler is called at
\* most once and before every call of the data handler, the data handler is
\* called before the end handler, the diff functions and the journal decision
\* are called after the end handler only, and when they are called the data
\* handler has had every line of the export: the old map is the map of the
\* whole file.
C21_SnapshotReadProtocol ==
    /\ Cardinality(Places("headers")) <= 1
    /\ Cardinality(Places("end")) <= 1
    /\ \A h \in Places("headers") : \A d \in Places("data") \cup Places("end") : h < d
    /\ \A d \in Places("data") : \A e \in Places("end") : d < e
    /\ \A c \in DiffPlaces : \E e \in Places("end") : e < c
    /\ DiffPlaces # {} =>
           /\ snapshot.exists
           /\ Cardinality(Places("data")) = Len(snapshot.rows)
           /\ oldTranslationMap = Reconstructed(snapshot, opts)

\* A run that has had the headers and three lines of a previous export before
\* its diff.
C21_Witness ==
    /\ pc = "done"
    /\ diff.computed
    /\ Places("headers") # {}
    /\ Cardinality(Places("data")) >= 3
    /\ DiffPlaces # {}

\* The cell of a line of the previous export under a header; undefined, as
\* in the parsed row, when the export has no such header.
LineCell(headers, line, col) == Get(ParsedRow(headers, line), col)

\* The headers of the previous export that a locale was discovered from.
ColumnsOf(locale) ==
    {h \in Range(stream.headers) :
        /\ h # opts.translationKeyColumnName
        /\ getLocaleFromColumnName(h, opts.localeColumnNames) = locale}

\* What the replay of the next line is to do to the old map: with a key in the
\* line, every locale has under that key the line's cell in the locale's
\* column and keeps what it has under every other key; without a key the old
\* map stays as it is.
RowReplayed ==
    LET line == Head(stream.rows)
        key == LineCell(stream.headers, line, opts.translationKeyColumnName)
    IN  IF Truthy(key)
        THEN /\ LocalesOf(oldTranslationMap') = LocalesOf(oldTranslationMap)
             /\ \A i \in DOMAIN oldTranslationMap :
                    /\ \E h \in ColumnsOf(oldTranslationMap[i].locale) :
                           Get(oldTranslationMap'[i].dict, key) =
                               LineCell(stream.headers, line, h)
                    /\ \A k \in KeySet(oldTranslationMap) \ {key} :
                           Get(oldTranslationMap'[i].dict, k) =
                               Get(oldTranslationMap[i].dict, k)
        ELSE oldTranslationMap' = oldTranslationMap

\* A step of the data handler: the read stream has delivered a line.
LineDelivered == pc = "data" /\ stream.rows # <<>> /\ stream'.rows = Tail(stream.rows)

\* C22: every call of the data handler on a line of the previous export with a
\* translation key gives every locale discovered from the headers the line's
\* cell in that locale's column under that key, and a call on a line without
\* a translation key changes nothing in the old map.
C22_SnapshotRowReplay == [][LineDelivered => RowReplayed]_vars

\* The same of the runs that read an export with the column names it was
\* written with.
RowReplayWithOwnColumnNames ==
    [][(LineDelivered /\ lastRun.completed
                      /\ lastRun.localeColumnNames = opts.localeColumnNames)
           => RowReplayed]_vars

----------------------------------------------------------------------------
(* Keys that are populated for the first time, and the lines of the journal *)

\* A key of the old map that no locale of it has a value for, and that some
\* locale of the current map has a value for.
PopulatedFromEmpty(k) ==
    /\ k \in KeySet(oldTranslationMap)
    /\ \A i \in DOMAIN oldTranslationMap : ~Truthy(Get(oldTranslationMap[i].dict, k))
    /\ \E i \in DOMAIN translationMap : Truthy(Get(translationMap[i].dict, k))

\* C23: a key of the old map without a value in any of its locales that the
\* current map has a value for is none of the inserted, the updated and the
\* deleted keys of the diff, and a journal that is written is written for
\* another key and has no line for this one.
C23_PopulationFromEmpty ==
    Diffed =>
        /\ \A k \in KeySet(oldTranslationMap) :
               PopulatedFromEmpty(k) =>
                   /\ ~Includes(diff.inserted, k)
                   /\ ~Includes(diff.updated, k)
                   /\ ~Includes(diff.deleted, k)
                   /\ journalFile.exists => k \notin Range(JournalKeys)
        /\ journalFile.exists => \E k \in Reported : ~PopulatedFromEmpty(k)

\* A diff of maps with such a key and nothing else to report: no journal.
C23_Witness ==
    /\ diff.computed
    /\ \E k \in KeySet(oldTranslationMap) : PopulatedFromEmpty(k)
    /\ ~journalFile.exists

\* The paths of the three files of a run, in the order the end handler and
\* the run without a previous export take them.
ArtifactPaths == <<"outputFile", "journalFile", "metaDataFile">>

\* The places of a call on a path in the trace of the run.
PlacesOn(name, path) == {i \in DOMAIN trace : trace[i] = Call(name, path)}

\* The writers that are open after the first n calls of the trace: those
\* created and not ended.
OpenWriters(n) ==
    {p \in Range(ArtifactPaths) :
        \E i \in PlacesOn("createWriter", p) :
            /\ i <= n
            /\ \A j \in PlacesOn("writer.end", p) : j > n}

\* C24: a run opens at most one writer on each of its files, on the
\* translation file before the journal and on both before the meta data
\* file; the file is removed before its writer is opened; a writer is ended
\* before the next is opened, so that two are never open together; a
\* completed run has written the translation file and the meta data file,
\* and the journal exactly when it opened a writer on it.
C24_WriteSequencing ==
    /\ \A p \in Range(ArtifactPaths) :
           /\ Cardinality(PlacesOn("createWriter", p)) <= 1
           /\ \A i \in PlacesOn("createWriter", p) :
                  /\ \E j \in PlacesOn("cleanFile", p) : j < i
                  /\ \E j \in PlacesOn("writer.end", p) : j > i
    /\ \A a, b \in DOMAIN ArtifactPaths :
           a < b =>
               \A i \in PlacesOn("createWriter", ArtifactPaths[a]) :
                   \A j \in PlacesOn("createWriter", ArtifactPaths[b]) :
                       /\ i < j
                       /\ \E e \in PlacesOn("writer.end", ArtifactPaths[a]) : e < j
    /\ \A n \in 0..Len(trace) : Cardinality(OpenWriters(n)) <= 1
    /\ pc = "done" =>
           /\ PlacesOn("createWriter", "outputFile") # {}
           /\ PlacesOn("createWriter", "metaDataFile") # {}
           /\ \A i \in PlacesOn("createWriter", "journalFile") :
                  \A j \in PlacesOn("createWriter", "metaDataFile") : i < j
           /\ outputFile.rows # <<>> /\ metaDataFile.rows # <<>>
           /\ journalFile.exists <=> PlacesOn("createWriter", "journalFile") # {}

\* A run that has written the three files.
C24_Witness ==
    /\ pc = "done"
    /\ journalFile.exists
    /\ \A p \in Range(ArtifactPaths) : PlacesOn("writer.end", p) # {}

\* C25: a run that found a previous export leaves the file as it found it
\* until the end handler is called, calls cleanFile and createWriter on it
\* only after the end handler was called and the data handler has had every
\* line of it, and from then on holds as old map the map of the whole file.
C25_SnapshotReadBeforeRewrite ==
    (snapshot.exists /\ pc # "idle") =>
        /\ Places("end") = {} =>
               /\ outputFile = snapshot
               /\ PlacesOn("cleanFile", "outputFile") = {}
               /\ PlacesOn("createWriter", "outputFile") = {}
        /\ \A i \in PlacesOn("cleanFile", "outputFile")
                        \cup PlacesOn("createWriter", "outputFile") :
               \E e \in Places("end") :
                   /\ e < i
                   /\ Cardinality({d \in Places("data") : d < e}) = Len(snapshot.rows)
        /\ Places("end") # {} => oldTranslationMap = Reconstructed(snapshot, opts)

\* A run that has replaced a previous export of three lines by another.
C25_Witness ==
    /\ pc = "done"
    /\ snapshot.exists
    /\ Len(snapshot.rows) >= 3
    /\ outputFile # snapshot
    /\ PlacesOn("createWriter", "outputFile") # {}

\* A line of a csv file without a value in any column.
BlankLine(line) == \A c \in DOMAIN line : line[c] = ""

\* C26: a journal that is written has a blank first line, a blank last line
\* and between the two at least one line, and every line between the two has
\* a translation key and the update type NEW, UPDATE or DELETE.
C26_JournalNeverEmpty ==
    journalFile.exists =>
        /\ Len(journalFile.rows) >= 3
        /\ BlankLine(journalFile.rows[1])
        /\ BlankLine(journalFile.rows[Len(journalFile.rows)])
        /\ \A r \in DOMAIN JournalKeys :
               /\ JournalKeys[r] # ""
               /\ JournalTypes[r] \in {UpdateTypeINSERT, UpdateTypeUPDATE, UpdateTypeDELETE}

\* The same of the runs in which no locale of the current map is written
\* under the translation key column.
JournalNeverEmptyWithKeyColumn ==
    (\A i \in DOMAIN translationMap :
         getLocaleColumnName(translationMap[i].locale, opts.localeColumnNames)
             # opts.translationKeyColumnName)
    => C26_JournalNeverEmpty

====
